---- MODULE Spec2Model ----
(***************************************************************************)
(* Pass-inator (src/main.go): an interactive session reads a length and    *)
(* four yes/no answers, builds a PasswordConfig and calls                   *)
(* generatePassword, which validates the config, draws one character per   *)
(* enabled class, fills up to the requested length from the composed       *)
(* alphabet and shuffles the result with Fisher-Yates.                      *)
(*                                                                         *)
(* Strings are sequences of byte values (the ASCII code of a character),   *)
(* so len(s) is Len(s) and s[k] of the Go code is s[k + 1] here.            *)
(***************************************************************************)
EXTENDS Integers, Sequences, FiniteSets, TLC

\* ------------------------------------------------------------------ bounds

\* The answers to the length prompt include the decimal form of every integer
\* in minPasswordLength - MaxBelow .. minPasswordLength + MaxAbove.
MaxBelow == 7
MaxAbove == 1
\* The runs of the whole program that are explored are those in which at most
\* MaxFree draws give a value other than 0; such a draw gives any value of its
\* range, and any draw may fail.
MaxFree == 1
\* The shuffle is also run on its own on buffers of up to MaxShuffleLen
\* characters, with every sequence of draws explored.
MaxShuffleLen == 6

\* --------------------------------------------------------------- constants

minPasswordLength == 6

\* "abcdefghijklmnopqrstuvwxyz"
lowercaseChars == [k \in 1..26 |-> 96 + k]
\* "ABCDEFGHIJKLMNOPQRSTUVWXYZ"
uppercaseChars == [k \in 1..26 |-> 64 + k]
\* "0123456789"
numberChars == [k \in 1..10 |-> 47 + k]
\* "!@#$%^&*()_+-=[]{}|;:,.<>?"
specialChars ==
    << 33, 64, 35, 36, 37, 94, 38, 42, 40, 41, 95, 43, 45, 61,
       91, 93, 123, 125, 124, 59, 58, 44, 46, 60, 62, 63 >>

\* The error values of the program.
\* An error is the chain of its messages, outermost first; nil is the empty chain.
Nil == << >>
ErrSyntax == "invalid syntax"
ErrInvalidLength == "password length must be at least 6 characters"
ErrNoCharType == "at least one character type must be selected"
ErrMaxNotPositive == "max must be positive"
ErrReader == "rand.Reader failed"
ErrRandomIndex == "failed to generate random index"
ErrShuffle == "failed to shuffle password"

\* ----------------------------------------------------------------- helpers

Range(s) == {s[k] : k \in DOMAIN s}

\* How many times c occurs in s.
Count(s, c) == Cardinality({k \in DOMAIN s : s[k] = c})

\* strings.TrimSpace on ASCII input: leading and trailing white space
\* (\t \n \v \f \r and space) is cut off.
IsSpace(c) == c \in {9, 10, 11, 12, 13, 32}

RECURSIVE TrimLeft(_)
TrimLeft(s) ==
    IF s # << >> /\ IsSpace(Head(s)) THEN TrimLeft(Tail(s)) ELSE s

RECURSIVE TrimRight(_)
TrimRight(s) ==
    IF s # << >> /\ IsSpace(s[Len(s)])
    THEN TrimRight(SubSeq(s, 1, Len(s) - 1))
    ELSE s

TrimSpace(s) == TrimRight(TrimLeft(s))

\* strings.ToLower on ASCII input: 'A'..'Z' become 'a'..'z'.
ToLower(s) == [k \in DOMAIN s |-> IF s[k] >= 65 /\ s[k] <= 90 THEN s[k] + 32 ELSE s[k]]

\* strconv.Atoi on a string short enough not to overflow an int: an optional
\* sign, then one or more decimal digits and nothing else.
IsDigit(c) == c >= 48 /\ c <= 57

RECURSIVE DigitsValue(_, _)
DigitsValue(s, acc) ==
    IF s = << >> THEN acc ELSE DigitsValue(Tail(s), acc * 10 + (Head(s) - 48))

Atoi(s) ==
    LET signed == s # << >> /\ Head(s) \in {43, 45}
        digits == IF signed THEN Tail(s) ELSE s
    IN  IF digits = << >> \/ \E k \in DOMAIN digits : ~IsDigit(digits[k])
        THEN [n |-> 0, err |-> << ErrSyntax >>]
        ELSE [n |-> IF signed /\ Head(s) = 45
                    THEN 0 - DigitsValue(digits, 0)
                    ELSE DigitsValue(digits, 0),
              err |-> Nil]

\* []rune(s): UTF-8 decoding. Every byte below 0x80 is one rune of the same
\* value; a byte that starts no valid encoding decodes to U+FFFD.
ToRunes(s) == [k \in DOMAIN s |-> IF s[k] < 128 THEN s[k] ELSE 65533]

\* string(runes): UTF-8 encoding, one byte for a rune below 0x80, two below
\* 0x800 and three up to 0xFFFF.
EncodeRune(r) ==
    IF r < 128 THEN << r >>
    ELSE IF r < 2048 THEN << 192 + (r \div 64), 128 + (r % 64) >>
    ELSE << 224 + (r \div 4096), 128 + ((r \div 64) % 64), 128 + (r % 64) >>

RECURSIVE RunesToString(_)
RunesToString(runes) ==
    IF runes = << >> THEN << >>
    ELSE EncodeRune(Head(runes)) \o RunesToString(Tail(runes))

\* --------------------------------------------------------------- the state

VARIABLES
    pc,               \* the statement the program is at
    eof,              \* TRUE once standard input has reached its end
    lastOut,          \* the last text written to standard output
    lengthStr,        \* main: the trimmed answer to the length prompt
    length,           \* main: the length handed to the config
    config,           \* main: the PasswordConfig being assembled, then passed
    err,              \* main: err, first of strconv.Atoi, then of generatePassword
    password,         \* main: the string returned by generatePassword
    exitCode,         \* the exit status, -1 while the process runs
    charSet,          \* generatePassword: the composed alphabet
    builder,          \* generatePassword: the strings.Builder named password
    remainingLength,  \* generatePassword: remainingLength
    i,                \* generatePassword: the index of the running loop
    passwordStr,      \* generatePassword: passwordStr
    passwordRunes,    \* generatePassword: passwordRunes
    calls             \* the calls of secureRandomInt so far: bound, success, value

vars == << pc, eof, lastOut, lengthStr, length, config, err, password, exitCode,
           charSet, builder, remainingLength, i, passwordStr, passwordRunes, calls >>

mainVars == << eof, lastOut, lengthStr, length, config, err, password, exitCode >>
genLocals == << charSet, builder, remainingLength, i, passwordStr, passwordRunes >>

\* PasswordConfig{}: the zero value.
ZeroConfig ==
    [Length |-> 0, UseLowercase |-> FALSE, UseUppercase |-> FALSE,
     UseNumbers |-> FALSE, UseSpecialChars |-> FALSE]

\* ------------------------------------------------------ secure random source

\* What rand.Int(rand.Reader, max) may return for a positive max: any value of
\* [0, max).
Entropy(max) == 0..(max - 1)

\* secureRandomInt(max): the set of (value, error) pairs the call may return.
secureRandomInt(max) ==
    IF max <= 0
    THEN {[n |-> 0, err |-> << ErrMaxNotPositive >>]}
    ELSE {[n |-> r, err |-> Nil] : r \in Entropy(max)}
         \cup {[n |-> 0, err |-> << ErrReader >>]}

\* ------------------------------------------------------------ validateConfig

\* Mutant: the test for an empty selection is left out.
validateConfig_LengthOnly(c) ==
    IF c.Length < minPasswordLength THEN << ErrInvalidLength >> ELSE Nil

\* Mutant: the two tests are made in the other order.
validateConfig_ClassFirst(c) ==
    IF ~c.UseLowercase /\ ~c.UseUppercase /\ ~c.UseNumbers /\ ~c.UseSpecialChars
    THEN << ErrNoCharType >>
    ELSE IF c.Length < minPasswordLength THEN << ErrInvalidLength >>
    ELSE Nil

\* Mutant: the length test is off by one and lets minPasswordLength - 1 pass.
validateConfig_OffByOne(c) ==
    IF c.Length < minPasswordLength - 1 THEN << ErrInvalidLength >>
    ELSE IF ~c.UseLowercase /\ ~c.UseUppercase /\ ~c.UseNumbers /\ ~c.UseSpecialChars
    THEN << ErrNoCharType >>
    ELSE Nil

validateConfig(c) ==
    IF c.Length < minPasswordLength THEN << ErrInvalidLength >>
    ELSE IF ~c.UseLowercase /\ ~c.UseUppercase /\ ~c.UseNumbers /\ ~c.UseSpecialChars
    THEN << ErrNoCharType >>
    ELSE Nil

\* ---------------------------------------------------------- generatePassword

\* Mutant: the alphabet holds all four tables, whatever the config enables.
ComposeCharSet_AllTables(c) ==
    lowercaseChars \o uppercaseChars \o numberChars \o specialChars

\* The alphabet of the fill step: the enabled tables, concatenated.
ComposeCharSet(c) ==
    (IF c.UseLowercase THEN lowercaseChars ELSE << >>)
    \o (IF c.UseUppercase THEN uppercaseChars ELSE << >>)
    \o (IF c.UseNumbers THEN numberChars ELSE << >>)
    \o (IF c.UseSpecialChars THEN specialChars ELSE << >>)

\* return "", e: the frame of generatePassword is left and main's
\* password, err := ... receives the pair.
ReturnError(e) ==
    /\ password' = << >>
    /\ err' = e
    /\ pc' = "returned"
    /\ charSet' = << >>
    /\ builder' = << >>
    /\ remainingLength' = 0
    /\ i' = 0
    /\ passwordStr' = << >>
    /\ passwordRunes' = << >>

\* if err := validateConfig(config); err != nil { return "", err }
Validate ==
    /\ pc = "generate"
    /\ IF validateConfig(config) # Nil
       THEN /\ ReturnError(validateConfig(config))
            /\ UNCHANGED << eof, lastOut, lengthStr, length, config, exitCode, calls >>
       ELSE /\ pc' = "charSet"
            /\ UNCHANGED << mainVars, genLocals, calls >>

BuildCharSet ==
    /\ pc = "charSet"
    /\ charSet' = ComposeCharSet(config)
    /\ pc' = "lowercase"
    /\ UNCHANGED << mainVars, builder, remainingLength, i, passwordStr, passwordRunes, calls >>

\* if config.<use> { idx, err := secureRandomInt(len(table)); ...;
\*                   password.WriteByte(table[idx]) }
Include(at, use, table, next) ==
    /\ pc = at
    /\ IF ~use
       THEN /\ pc' = next
            /\ UNCHANGED << mainVars, genLocals, calls >>
       ELSE \E r \in secureRandomInt(Len(table)) :
              /\ calls' = Append(calls, [max |-> Len(table), ok |-> r.err = Nil, n |-> r.n])
              /\ IF r.err # Nil
                 THEN /\ ReturnError(<< ErrRandomIndex >> \o r.err)
                      /\ UNCHANGED << eof, lastOut, lengthStr, length, config, exitCode >>
                 ELSE /\ IF r.n >= 0 /\ r.n < Len(table)
                         THEN /\ builder' = Append(builder, table[r.n + 1])
                              /\ pc' = next
                         ELSE /\ builder' = builder
                              /\ pc' = "panic"
                      /\ UNCHANGED << mainVars, charSet, remainingLength, i,
                                      passwordStr, passwordRunes >>

IncludeLowercase ==
    Include("lowercase", config.UseLowercase, lowercaseChars, "uppercase")
IncludeUppercase ==
    Include("uppercase", config.UseUppercase, uppercaseChars, "numbers")
IncludeNumbers ==
    Include("numbers", config.UseNumbers, numberChars, "special")
IncludeSpecialChars ==
    Include("special", config.UseSpecialChars, specialChars, "fillInit")

\* Mutant: the remainder is one short.
FillInit_OneShort ==
    /\ pc = "fillInit"
    /\ remainingLength' = config.Length - Len(builder) - 1
    /\ i' = 0
    /\ pc' = "fill"
    /\ UNCHANGED << mainVars, charSet, builder, passwordStr, passwordRunes, calls >>

\* remainingLength := config.Length - password.Len(); i := 0
FillInit ==
    /\ pc = "fillInit"
    /\ remainingLength' = config.Length - Len(builder)
    /\ i' = 0
    /\ pc' = "fill"
    /\ UNCHANGED << mainVars, charSet, builder, passwordStr, passwordRunes, calls >>

\* Mutant: a failed draw is replaced by index 0 and the loop goes on.
FillStep_DefaultOnError ==
    /\ pc = "fill"
    /\ IF ~(i < remainingLength)
       THEN /\ pc' = "shuffleInit"
            /\ UNCHANGED << mainVars, genLocals, calls >>
       ELSE \E r \in secureRandomInt(Len(charSet)) :
              /\ calls' = Append(calls, [max |-> Len(charSet), ok |-> r.err = Nil, n |-> r.n])
              /\ IF r.n >= 0 /\ r.n < Len(charSet)
                 THEN /\ builder' = Append(builder, charSet[r.n + 1])
                      /\ i' = i + 1
                      /\ pc' = "fill"
                 ELSE /\ builder' = builder
                      /\ i' = i
                      /\ pc' = "panic"
              /\ UNCHANGED << mainVars, charSet, remainingLength,
                              passwordStr, passwordRunes >>

\* for ; i < remainingLength; i++ { idx := secureRandomInt(len(charSet)); ... }
FillStep ==
    /\ pc = "fill"
    /\ IF ~(i < remainingLength)
       THEN /\ pc' = "shuffleInit"
            /\ UNCHANGED << mainVars, genLocals, calls >>
       ELSE \E r \in secureRandomInt(Len(charSet)) :
              /\ calls' = Append(calls, [max |-> Len(charSet), ok |-> r.err = Nil, n |-> r.n])
              /\ IF r.err # Nil
                 THEN /\ ReturnError(<< ErrRandomIndex >> \o r.err)
                      /\ UNCHANGED << eof, lastOut, lengthStr, length, config, exitCode >>
                 ELSE /\ IF r.n >= 0 /\ r.n < Len(charSet)
                         THEN /\ builder' = Append(builder, charSet[r.n + 1])
                              /\ i' = i + 1
                              /\ pc' = "fill"
                         ELSE /\ builder' = builder
                              /\ i' = i
                              /\ pc' = "panic"
                      /\ UNCHANGED << mainVars, charSet, remainingLength,
                                      passwordStr, passwordRunes >>

\* Mutant: the loop index starts at len(passwordRunes), one too high.
ShuffleInit_OffByOne ==
    /\ pc = "shuffleInit"
    /\ passwordStr' = builder
    /\ passwordRunes' = ToRunes(builder)
    /\ i' = Len(ToRunes(builder))
    /\ pc' = "shuffle"
    /\ UNCHANGED << mainVars, charSet, builder, remainingLength, calls >>

\* passwordStr := password.String(); passwordRunes := []rune(passwordStr);
\* i := len(passwordRunes) - 1
ShuffleInit ==
    /\ pc = "shuffleInit"
    /\ passwordStr' = builder
    /\ passwordRunes' = ToRunes(builder)
    /\ i' = Len(ToRunes(builder)) - 1
    /\ pc' = "shuffle"
    /\ UNCHANGED << mainVars, charSet, builder, remainingLength, calls >>

\* Mutant: the two assignments are made one after the other, so position b
\* gets its own value back.
Swap_Sequential(runes, a, b) ==
    [runes EXCEPT ![a + 1] = runes[b + 1]]

\* passwordRunes[i], passwordRunes[j] = passwordRunes[j], passwordRunes[i]
Swap(runes, a, b) ==
    [runes EXCEPT ![a + 1] = runes[b + 1], ![b + 1] = runes[a + 1]]

\* The shuffle loop as a function of the buffer and of the draws it is
\* given, the first one for the index idx, the next for idx - 1, and so on:
\* the buffer after as many turns as there are draws, index 1 being the last.
RECURSIVE FisherYates(_, _, _)
FisherYates(runes, idx, draws) ==
    IF ~(idx > 0) \/ draws = << >> THEN runes
    ELSE FisherYates(Swap(runes, idx, Head(draws)), idx - 1, Tail(draws))

\* for ; i > 0; i-- { j := secureRandomInt(i + 1); swap i, j }
\* (an index outside the slice is a run-time panic)
ShuffleStep ==
    /\ pc = "shuffle"
    /\ IF ~(i > 0)
       THEN /\ pc' = "return"
            /\ UNCHANGED << mainVars, genLocals, calls >>
       ELSE \E r \in secureRandomInt(i + 1) :
              /\ calls' = Append(calls, [max |-> i + 1, ok |-> r.err = Nil, n |-> r.n])
              /\ IF r.err # Nil
                 THEN /\ ReturnError(<< ErrShuffle >> \o r.err)
                      /\ UNCHANGED << eof, lastOut, lengthStr, length, config, exitCode >>
                 ELSE /\ IF /\ i < Len(passwordRunes)
                            /\ r.n >= 0 /\ r.n < Len(passwordRunes)
                         THEN /\ passwordRunes' = Swap(passwordRunes, i, r.n)
                              /\ i' = i - 1
                              /\ pc' = "shuffle"
                         ELSE /\ passwordRunes' = passwordRunes
                              /\ i' = i
                              /\ pc' = "panic"
                      /\ UNCHANGED << mainVars, charSet, builder, remainingLength,
                                      passwordStr >>

\* return string(passwordRunes), nil
ReturnPassword ==
    /\ pc = "return"
    /\ password' = RunesToString(passwordRunes)
    /\ err' = Nil
    /\ pc' = "returned"
    /\ charSet' = << >>
    /\ builder' = << >>
    /\ remainingLength' = 0
    /\ i' = 0
    /\ passwordStr' = << >>
    /\ passwordRunes' = << >>
    /\ UNCHANGED << eof, lastOut, lengthStr, length, config, exitCode, calls >>

\* --------------------------------------------------------- standard input

\* The decimal form of an integer, as typed at the length prompt.
RECURSIVE NatDigits(_)
NatDigits(n) ==
    IF n < 10 THEN << 48 + n >> ELSE Append(NatDigits(n \div 10), 48 + (n % 10))

Decimal(n) == IF n < 0 THEN << 45 >> \o NatDigits(0 - n) ELSE NatDigits(n)

\* The lines that may be typed at the length prompt: the integers around the
\* minimum, and "", " 6 ", "+5", "-", "6x".
LengthLines ==
    {Decimal(n) : n \in (minPasswordLength - MaxBelow)..(minPasswordLength + MaxAbove)}
    \cup {<< >>, << 32, 54, 32 >>, << 43, 53 >>, << 45 >>, << 54, 120 >>}

\* The lines that may be typed at a yes/no prompt:
\* "y", "YES", " n", "No", "", "x", "yes!".
YesNoLines ==
    {<< 121 >>, << 89, 69, 83 >>, << 32, 110 >>, << 78, 111 >>,
     << >>, << 120 >>, << 121, 101, 115, 33 >>}

\* readUserInput: the trimmed text of the next line and whether the input has
\* ended. Each call wraps os.Stdin in a new bufio.Reader and drops the read
\* error, so at the end of the input, and ever after, the text is empty. (Text
\* before an end of input without a newline is returned like a line, and the
\* end is met by the next call.)
readUserInput(lines) ==
    IF eof
    THEN {[input |-> << >>, eof |-> TRUE]}
    ELSE {[input |-> TrimSpace(l), eof |-> FALSE] : l \in lines}
         \cup {[input |-> << >>, eof |-> TRUE]}

PromptLength == "Enter password length (minimum 6): "
MsgFallback == "Error: Invalid length. Using minimum length of 6"
MsgYesNo == "Please enter 'y' or 'n'"
MsgError == "Error generating password: "
MsgPassword == "Your generated password is:"

\* ------------------------------------------------------------------- main

\* Mutant: a parsed length below the minimum is raised to the minimum.
ReadLength_Clamp ==
    /\ pc = "readLength"
    /\ \E r \in readUserInput(LengthLines) :
         /\ eof' = r.eof
         /\ lengthStr' = r.input
         /\ err' = Atoi(r.input).err
         /\ IF Atoi(r.input).err # Nil
            THEN /\ lastOut' = MsgFallback
                 /\ length' = minPasswordLength
            ELSE /\ lastOut' = PromptLength
                 /\ length' = IF Atoi(r.input).n < minPasswordLength
                              THEN minPasswordLength
                              ELSE Atoi(r.input).n
    /\ pc' = "promptLowercase"
    /\ UNCHANGED << config, password, exitCode, genLocals, calls >>

\* lengthStr := readUserInput(...); length, err := strconv.Atoi(lengthStr);
\* if err != nil { fmt.Printf(...); length = minPasswordLength }
ReadLength ==
    /\ pc = "readLength"
    /\ \E r \in readUserInput(LengthLines) :
         /\ eof' = r.eof
         /\ lengthStr' = r.input
         /\ err' = Atoi(r.input).err
         /\ IF Atoi(r.input).err # Nil
            THEN /\ lastOut' = MsgFallback
                 /\ length' = minPasswordLength
            ELSE /\ lastOut' = PromptLength
                 /\ length' = Atoi(r.input).n
    /\ pc' = "promptLowercase"
    /\ UNCHANGED << config, password, exitCode, genLocals, calls >>

\* readYesNo, the head of a turn of its loop: readUserInput prints the prompt.
Prompt(at, prompt, reading) ==
    /\ pc = at
    /\ lastOut' = prompt
    /\ pc' = reading
    /\ UNCHANGED << eof, lengthStr, length, config, err, password, exitCode,
                    genLocals, calls >>

\* readYesNo, the rest of the turn: the answer is read and lowered; y or yes
\* and n or no set the field of the config literal, anything else prints the
\* hint and starts the next turn.
Answer(reading, field, at, next) ==
    /\ pc = reading
    /\ \E r \in readUserInput(YesNoLines) :
         LET input == ToLower(r.input) IN
         /\ eof' = r.eof
         /\ IF input = << 121 >> \/ input = << 121, 101, 115 >>
            THEN /\ config' = [config EXCEPT !.Length = length, ![field] = TRUE]
                 /\ lastOut' = lastOut
                 /\ pc' = next
            ELSE IF input = << 110 >> \/ input = << 110, 111 >>
            THEN /\ config' = [config EXCEPT !.Length = length, ![field] = FALSE]
                 /\ lastOut' = lastOut
                 /\ pc' = next
            ELSE /\ config' = config
                 /\ lastOut' = MsgYesNo
                 /\ pc' = at
    /\ UNCHANGED << lengthStr, length, err, password, exitCode, genLocals, calls >>

PromptLowercase ==
    Prompt("promptLowercase", "Include lowercase letters? (y/n): ", "readLowercase")
AnswerLowercase ==
    Answer("readLowercase", "UseLowercase", "promptLowercase", "promptUppercase")
PromptUppercase ==
    Prompt("promptUppercase", "Include uppercase letters? (y/n): ", "readUppercase")
AnswerUppercase ==
    Answer("readUppercase", "UseUppercase", "promptUppercase", "promptNumbers")
PromptNumbers ==
    Prompt("promptNumbers", "Include numbers? (y/n): ", "readNumbers")
AnswerNumbers ==
    Answer("readNumbers", "UseNumbers", "promptNumbers", "promptSpecial")
PromptSpecialChars ==
    Prompt("promptSpecial", "Include special characters? (y/n): ", "readSpecial")
AnswerSpecialChars ==
    Answer("readSpecial", "UseSpecialChars", "promptSpecial", "generate")

\* if err != nil { fmt.Printf("Error generating password: %v\n", err); os.Exit(1) }
ExitOnError ==
    /\ pc = "returned"
    /\ err # Nil
    /\ lastOut' = MsgError
    /\ exitCode' = 1
    /\ pc' = "exited"
    /\ UNCHANGED << eof, lengthStr, length, config, err, password, genLocals, calls >>

\* The password is printed between the delimiter lines and main returns.
PrintPassword ==
    /\ pc = "returned"
    /\ err = Nil
    /\ lastOut' = MsgPassword
    /\ exitCode' = 0
    /\ pc' = "exited"
    /\ UNCHANGED << eof, lengthStr, length, config, err, password, genLocals, calls >>

\* ------------------------------------------------------- the specifications

Init ==
    /\ pc = "readLength"
    /\ eof = FALSE
    /\ lastOut = "Welcome to Pass-inator - Your Secure Password Generator"
    /\ lengthStr = << >>
    /\ length = 0
    /\ config = ZeroConfig
    /\ err = Nil
    /\ password = << >>
    /\ exitCode = -1
    /\ charSet = << >>
    /\ builder = << >>
    /\ remainingLength = 0
    /\ i = 0
    /\ passwordStr = << >>
    /\ passwordRunes = << >>
    /\ calls = << >>

\* A step of the program.
Next ==
    \/ ReadLength
    \/ PromptLowercase
    \/ AnswerLowercase
    \/ PromptUppercase
    \/ AnswerUppercase
    \/ PromptNumbers
    \/ AnswerNumbers
    \/ PromptSpecialChars
    \/ AnswerSpecialChars
    \/ Validate
    \/ BuildCharSet
    \/ IncludeLowercase
    \/ IncludeUppercase
    \/ IncludeNumbers
    \/ IncludeSpecialChars
    \/ FillInit
    \/ FillStep
    \/ ShuffleInit
    \/ ShuffleStep
    \/ ReturnPassword
    \/ ExitOnError
    \/ PrintPassword

Spec == Init /\ [][Next]_vars

\* The process is scheduled until it exits: it never stops at a statement
\* that can be executed.
FairSpec == Spec /\ WF_vars(Next)

\* The bound on the explored runs of the program: of the draws made so far, at
\* most MaxFree gave a value other than 0. With MaxFree at the number of draws
\* of a run, 2 * Length - 1, it holds of every run. A draw of 0 and a failed
\* draw keep it, so a run within the bound can always go on.
Bounded ==
    Cardinality({k \in DOMAIN calls : calls[k].ok /\ calls[k].n # 0}) <= MaxFree

\* The steps of Next that stay within the bound; only a draw can leave it.
BoundedNext ==
    \/ ReadLength
    \/ PromptLowercase
    \/ AnswerLowercase
    \/ PromptUppercase
    \/ AnswerUppercase
    \/ PromptNumbers
    \/ AnswerNumbers
    \/ PromptSpecialChars
    \/ AnswerSpecialChars
    \/ Validate
    \/ BuildCharSet
    \/ IncludeLowercase /\ Bounded'
    \/ IncludeUppercase /\ Bounded'
    \/ IncludeNumbers /\ Bounded'
    \/ IncludeSpecialChars /\ Bounded'
    \/ FillInit
    \/ FillStep /\ Bounded'
    \/ ShuffleInit
    \/ ShuffleStep /\ Bounded'
    \/ ReturnPassword
    \/ ExitOnError
    \/ PrintPassword

\* The runs of Spec within the bound, and those of them that are fair.
BoundedSpec == Init /\ [][BoundedNext]_vars
BoundedFairSpec == BoundedSpec /\ WF_vars(Next)

\* The shuffle on its own: generatePassword at the head of its last loop, the
\* builder holding the first n lowercase letters (all distinct) or n letters
\* alternating between two; every sequence of draws is explored.
ShuffleInputs ==
    {SubSeq(lowercaseChars, 1, n) : n \in 0..MaxShuffleLen}
    \cup {[k \in 1..n |-> lowercaseChars[1 + (k % 2)]] : n \in 2..MaxShuffleLen}

ShuffleStart ==
    /\ builder \in ShuffleInputs
    /\ pc = "shuffle"
    /\ eof = FALSE
    /\ lastOut = "Include special characters? (y/n): "
    /\ lengthStr = Decimal(Len(builder))
    /\ length = Len(builder)
    /\ config = [ZeroConfig EXCEPT !.Length = Len(builder), !.UseLowercase = TRUE]
    /\ err = Nil
    /\ password = << >>
    /\ exitCode = -1
    /\ charSet = lowercaseChars
    /\ remainingLength = Len(builder) - 1
    /\ passwordStr = builder
    /\ passwordRunes = ToRunes(builder)
    /\ i = Len(builder) - 1
    /\ calls = << >>

ShuffleNext ==
    \/ ShuffleStep
    \/ ReturnPassword

ShuffleSpec == ShuffleStart /\ [][ShuffleNext]_vars

\* -------------------------------------------------------------- the claims

Valid(c) ==
    /\ c.Length >= minPasswordLength
    /\ c.UseLowercase \/ c.UseUppercase \/ c.UseNumbers \/ c.UseSpecialChars

NoClass(c) ==
    ~c.UseLowercase /\ ~c.UseUppercase /\ ~c.UseNumbers /\ ~c.UseSpecialChars

\* generatePassword has been called and has returned.
Returned == pc \in {"returned", "exited"}

\* generatePassword has been called.
Called == pc \notin {"readLength", "promptLowercase", "readLowercase", "promptUppercase",
                     "readUppercase", "promptNumbers", "readNumbers", "promptSpecial",
                     "readSpecial"}

\* The four classes: whether the config enables them, and their tables.
Classes(c) ==
    << [use |-> c.UseLowercase, table |-> lowercaseChars],
       [use |-> c.UseUppercase, table |-> uppercaseChars],
       [use |-> c.UseNumbers, table |-> numberChars],
       [use |-> c.UseSpecialChars, table |-> specialChars] >>

IsPrefix(a, b) == Len(a) <= Len(b) /\ \A k \in DOMAIN a : a[k] = b[k]

\* C1: a valid config whose draws all succeed yields a password of exactly
\* config.Length bytes.
C1_LengthIsExact ==
    (Returned /\ Valid(config) /\ \A k \in DOMAIN calls : calls[k].ok)
        => (err = Nil /\ Len(password) = config.Length)

C1_Witness ==
    /\ pc = "exited"
    /\ err = Nil
    /\ config.Length = minPasswordLength + 1
    /\ Len(password) = minPasswordLength + 1
    /\ config.UseLowercase /\ config.UseUppercase /\ config.UseNumbers
    /\ config.UseSpecialChars

\* C2: the password of a valid config holds a character of every enabled
\* class and none of a disabled class.
C2_ClassesCovered ==
    (Returned /\ Valid(config) /\ err = Nil)
        => \A k \in 1..4 :
             LET class == Classes(config)[k] IN
             IF class.use
             THEN Range(password) \cap Range(class.table) # {}
             ELSE Range(password) \cap Range(class.table) = {}

C2_Witness ==
    /\ pc = "exited"
    /\ err = Nil
    /\ config.UseLowercase /\ ~config.UseUppercase
    /\ config.UseNumbers /\ ~config.UseSpecialChars
    /\ Range(password) \cap Range(numberChars) # {}
    /\ Range(password) \cap Range(lowercaseChars) # {}

\* C3, as claimed: with no class enabled generatePassword fails with
\* "at least one character type must be selected", whatever the length.
C3_NoClassWhateverLength ==
    (Returned /\ NoClass(config)) => err = << ErrNoCharType >>

\* C3, amended: with no class enabled and a length of at least
\* minPasswordLength, generatePassword fails with "at least one character
\* type must be selected" and returns the empty string.
C3_NoClassFromMinimumLength ==
    (Returned /\ NoClass(config) /\ config.Length >= minPasswordLength)
        => (err = << ErrNoCharType >> /\ password = << >>)

C3_Witness ==
    /\ pc = "exited"
    /\ NoClass(config)
    /\ config.Length = minPasswordLength + 1
    /\ err = << ErrNoCharType >>

\* C4: a length below minPasswordLength fails with the length error and the
\* empty string under every selection of classes, and the config the
\* generator is given keeps the length that was asked for.
C4_ShortLengthRejected ==
    /\ Called => config.Length = length
    /\ (Returned /\ config.Length < minPasswordLength)
          => (err = << ErrInvalidLength >> /\ password = << >>)

C4_Witness ==
    /\ pc = "exited"
    /\ config.Length < 0
    /\ NoClass(config)
    /\ err = << ErrInvalidLength >>

\* C5: while the config is invalid secureRandomInt has not been called, and
\* generatePassword returns an error.
C5_NoDrawOnInvalidConfig ==
    ~Valid(config) => (calls = << >> /\ (Returned => err # Nil))

C5_Witness ==
    /\ pc = "exited"
    /\ config.Length = minPasswordLength - 1
    /\ config.UseLowercase
    /\ err # Nil
    /\ calls = << >>

\* C6: a failed call of secureRandomInt is the last call that is made, and
\* generatePassword has returned the empty string and an error that wraps
\* the failure.
C6_FailedDrawAborts ==
    \A k \in DOMAIN calls :
        ~calls[k].ok =>
            /\ k = Len(calls)
            /\ Returned
            /\ password = << >>
            /\ Len(err) = 2
            /\ err[1] \in {ErrRandomIndex, ErrShuffle}
            /\ err[2] = ErrReader

C6_Witness ==
    /\ pc = "exited"
    /\ err = << ErrShuffle, ErrReader >>
    /\ Len(calls) > minPasswordLength + 1
    /\ ~calls[Len(calls)].ok
    /\ password = << >>
    /\ exitCode = 1

\* C7: an answer that is no integer makes the length minPasswordLength; an
\* integer answer is passed on as it is, and one below minPasswordLength ends
\* with the error printed, status 1 and no password; the status is non-zero
\* exactly when generatePassword returned an error.
C7_MainErrorHandling ==
    /\ (pc # "readLength" /\ Atoi(lengthStr).err # Nil) => length = minPasswordLength
    /\ (pc # "readLength" /\ Atoi(lengthStr).err = Nil) => length = Atoi(lengthStr).n
    /\ Called => config.Length = length
    /\ (Returned /\ Atoi(lengthStr).err # Nil) => err # << ErrInvalidLength >>
    /\ (Returned /\ Atoi(lengthStr).err = Nil /\ Atoi(lengthStr).n < minPasswordLength)
          => (err = << ErrInvalidLength >> /\ password = << >>)
    /\ pc = "exited" =>
          /\ (exitCode # 0) <=> (err # Nil)
          /\ err # Nil => (exitCode = 1 /\ lastOut = MsgError /\ password = << >>)
          /\ err = Nil => (exitCode = 0 /\ lastOut = MsgPassword)
    /\ pc # "exited" => exitCode = -1

C7_Witness ==
    /\ pc = "exited"
    /\ lengthStr = << 53 >>
    /\ config.UseLowercase
    /\ config.Length = 5
    /\ exitCode = 1
    /\ lastOut = MsgError

\* The draws of a whole shuffle that starts at index idx: one of [0, k] for
\* every index k from idx down to 1.
RECURSIVE DrawSeqs(_)
DrawSeqs(idx) ==
    IF idx <= 0 THEN {<< >>}
    ELSE {<< j >> \o d : j \in 0..idx, d \in DrawSeqs(idx - 1)}

\* The arrangements of s: the sequences with the same characters, each as
\* often as in s.
Arrangements(s) ==
    {p \in [DOMAIN s -> Range(s)] : \A c \in Range(s) : Count(p, c) = Count(s, c)}

IsDistinct(s) == Cardinality(Range(s)) = Len(s)

\* The values drawn so far.
Drawn == [k \in DOMAIN calls |-> calls[k].n]

\* C8: the loop draws j in [0, i] for i from n - 1 down to 1 and swaps i and
\* j; the buffer always holds the characters it started with; and on n
\* distinct characters the draw sequences map one-to-one onto all the n!
\* arrangements, the loop producing the one that belongs to its draws.
C8_ShuffleIsFisherYates ==
    pc \in {"shuffle", "return"} =>
        LET start == ToRunes(passwordStr)
            n == Len(start)
            results == {FisherYates(start, n - 1, d) : d \in DrawSeqs(n - 1)}
        IN  /\ Len(passwordRunes) = n
            /\ \A c \in Range(start) \cup Range(passwordRunes) :
                   Count(passwordRunes, c) = Count(start, c)
            /\ \A k \in DOMAIN calls :
                   /\ calls[k].max = n - k + 1
                   /\ calls[k].n \in 0..(n - k)
            /\ pc = "shuffle" /\ i > 0 => Len(calls) = n - 1 - i
            /\ pc = "return" => Len(calls) = IF n = 0 THEN 0 ELSE n - 1
            /\ pc = "return" => Drawn \in DrawSeqs(n - 1)
            /\ passwordRunes = FisherYates(start, n - 1, Drawn)
            /\ (IsDistinct(start) /\ calls = << >>)
                  => /\ Cardinality(results) = Cardinality(DrawSeqs(n - 1))
                     /\ results = Arrangements(start)

C8_Witness ==
    /\ pc = "return"
    /\ Len(passwordStr) >= 4
    /\ IsDistinct(passwordStr)
    /\ passwordRunes[1] = passwordStr[Len(passwordStr)]
    /\ passwordRunes[Len(passwordStr)] = passwordStr[2]

\* The bounds of the calls a successful run makes for config c.
ExpectedBounds(c) ==
    LET k == Cardinality({x \in 1..4 : Classes(c)[x].use})
    IN  (IF c.UseLowercase THEN << Len(lowercaseChars) >> ELSE << >>)
        \o (IF c.UseUppercase THEN << Len(uppercaseChars) >> ELSE << >>)
        \o (IF c.UseNumbers THEN << Len(numberChars) >> ELSE << >>)
        \o (IF c.UseSpecialChars THEN << Len(specialChars) >> ELSE << >>)
        \o [x \in 1..(c.Length - k) |-> Len(ComposeCharSet(c))]
        \o [x \in 1..(c.Length - 1) |-> c.Length - x + 1]

\* C9: for a valid config the calls are, in order, a prefix of: one per
\* enabled class with the size of its table, Length - k with the size of the
\* alphabet, Length - 1 with Length down to 2; a run whose draws all succeed
\* makes all 2 * Length - 1 of them; every bound is positive and no index
\* leaves its table or the buffer.
C9_CallsAndBounds ==
    /\ pc # "panic"
    /\ \A k \in DOMAIN err : err[k] # ErrMaxNotPositive
    /\ \A k \in DOMAIN calls : calls[k].max > 0
    /\ (Called /\ Valid(config))
          => IsPrefix([k \in DOMAIN calls |-> calls[k].max], ExpectedBounds(config))
    /\ (Returned /\ Valid(config) /\ err = Nil)
          => /\ Len(calls) = 2 * config.Length - 1
             /\ [k \in DOMAIN calls |-> calls[k].max] = ExpectedBounds(config)

C9_Witness ==
    /\ pc = "exited"
    /\ err = Nil
    /\ config.Length = minPasswordLength + 1
    /\ config.UseUppercase /\ config.UseNumbers
    /\ ~config.UseLowercase /\ ~config.UseSpecialChars
    /\ Len(calls) = 2 * minPasswordLength + 1

\* C10: once the input has ended the session comes to its end, with a
\* password printed or a non-zero status.
C10_EndOfInputTerminates == eof ~> (pc = "exited")

====
